---- MODULE Spec2Model ----
(***************************************************************************)
(* Event Logger: the browser beacon (src/app.js) and the Apps Script       *)
(* ingest endpoint (src/dopost.js).                                        *)
(*                                                                         *)
(* Strings are TLA+ strings; a JavaScript object is a function whose       *)
(* DOMAIN is the set of its own keys, so an absent key models undefined    *)
(* (and, for localStorage.getItem, null).                                  *)
(***************************************************************************)
EXTENDS Integers, Sequences, FiniteSets, TLC

VARIABLES
    page,        \* "loading" before init() has run, "ready" after
    now,         \* Date.now(), in ms since the start of the run
    storage,     \* localStorage: key -> string, absent keys are null
    inputValue,  \* gasUrlInput.value
    status,      \* statusElement: textContent, className (+ who wrote it)
    timers,      \* pending setTimeout callbacks of updateStatus
    nUpd,        \* number of updateStatus calls so far (history)
    lastClear,   \* the last clear a timer performed (history)
    calls,       \* the sendLogSimple invocations, in order of their clicks
    requests,    \* every fetch() issued, in order
    nActs,       \* number of user actions so far
    props,       \* script properties of the endpoint (SPREADSHEET_ID)
    books,       \* spreadsheet -> its sheets ("logs" present or not)
    invs,        \* the doPost invocations, in order of arrival
    uidReturns   \* what each getOrCreateUserId call returned (history)

clientVars == <<page, now, storage, inputValue, status, timers, nUpd,
                lastClear, calls, requests, nActs, uidReturns>>
serverVars == <<props, books, invs>>
vars == <<page, now, storage, inputValue, status, timers, nUpd, lastClear,
          calls, requests, nActs, props, books, invs, uidReturns>>

----------------------------------------------------------------------------
(* Bounds of the model *)

MaxActs == 2
MaxTicks == 1
MaxPosts == 3

----------------------------------------------------------------------------
(* String helpers: what the JavaScript String methods do *)

CharAt(s, i) == SubSeq(s, i, i)

EndsWith(s, suffix) ==
    /\ Len(s) >= Len(suffix)
    /\ SubSeq(s, Len(s) - Len(suffix) + 1, Len(s)) = suffix

StartsWith(s, prefix) ==
    /\ Len(s) >= Len(prefix)
    /\ SubSeq(s, 1, Len(prefix)) = prefix

Includes(s, part) ==
    \E i \in 1..(Len(s) - Len(part) + 1) : SubSeq(s, i, i + Len(part) - 1) = part

WhiteSpace == {" "}

RECURSIVE TrimStart(_)
TrimStart(s) ==
    IF Len(s) > 0 /\ CharAt(s, 1) \in WhiteSpace THEN TrimStart(Tail(s)) ELSE s

RECURSIVE TrimEnd(_)
TrimEnd(s) ==
    IF Len(s) > 0 /\ CharAt(s, Len(s)) \in WhiteSpace
    THEN TrimEnd(SubSeq(s, 1, Len(s) - 1))
    ELSE s

Trim(s) == TrimEnd(TrimStart(s))

Digits36 == "0123456789abcdefghijklmnopqrstuvwxyz"

\* Number.prototype.toString(36) of a non-negative integer
RECURSIVE ToString36(_)
ToString36(n) ==
    IF n < 36 THEN CharAt(Digits36, n + 1)
    ELSE ToString36(n \div 36) \o CharAt(Digits36, (n % 36) + 1)

\* !obj.key for an object whose values are strings
Falsy(obj, key) == key \notin DOMAIN obj \/ obj[key] = ""

\* the object with obj.key = value
Put(obj, key, value) ==
    [k \in DOMAIN obj \cup {key} |-> IF k = key THEN value ELSE obj[k]]

EmptyObj == [k \in {} |-> ""]

----------------------------------------------------------------------------
(* src/app.js: the client beacon *)

GAS_URL == "gas_url"
USER_ID == "uid"

\* what Math.random().toString(36).substr(2, 9) can give ("" when random() is 0)
RandomParts == {"4fzyo82mv", ""}

\* what the user can type into the URL field
UrlInputs ==
    { "  ",
      " https://script.google.com/macros/s/X/exec ",
      "https://script.google.com/macros/s/X/exec/dev",
      "http://example.org/exec" }

\* window.location.pathname and navigator.userAgent
Pathname == "/index.html"
UserAgent == "Mozilla/5.0"

\* the payloads of the three buttons
Payloads ==
    { [event |-> "cta_click", variant |-> "A"],
      [event |-> "cta_click", variant |-> "B"],
      [event |-> "heartbeat"] }

\* how fetch() can settle: rejected (network failure) or a response with a status
FetchOutcomes ==
    { [kind |-> "reject", message |-> "Failed to fetch"] }
    \cup { [kind |-> "response", status |-> c] : c \in {200, 404} }

\* how response.json() can settle: rejected (unparseable body) or a JSON value
JsonOutcomes ==
    { [kind |-> "reject", message |-> "Unexpected token < in JSON"],
      [kind |-> "null"],
      [kind |-> "object", fields |-> [ok |-> TRUE]],
      [kind |-> "object", fields |-> [ok |-> FALSE, error |-> "Missing required parameters"]] }

\* getOrCreateUserId() without its storage lookup: a new id on every call
GetOrCreateUserIdAlwaysNew(st, t, r) ==
    LET userId == "usr_" \o ToString36(t) \o "_" \o r
    IN [storage |-> Put(st, USER_ID, userId), userId |-> userId]

\* getOrCreateUserId(), with Date.now() = t and the random part r:
\* the storage afterwards and the value returned
GetOrCreateUserId(st, t, r) ==
    IF Falsy(st, USER_ID)
    THEN LET userId == "usr_" \o ToString36(t) \o "_" \o r
         IN [storage |-> Put(st, USER_ID, userId), userId |-> userId]
    ELSE [storage |-> st, userId |-> st[USER_ID]]

TimerDelay == 3000

\* the status display: element, pending timers, count of updateStatus calls
Display == [status |-> status, timers |-> timers, nUpd |-> nUpd]

ClearedStatus == [text |-> "", cls |-> "", by |-> 0]

\* updateStatus(message, isError) at time t
UpdateStatus(d, message, isError, t) ==
    LET n == d.nUpd + 1
    IN [status |-> [text |-> message,
                    cls |-> IF isError THEN "error" ELSE "success",
                    by |-> n],
        timers |-> IF isError THEN d.timers
                   ELSE d.timers \cup {[message |-> message, due |-> t + TimerDelay, by |-> n]},
        nUpd |-> n]

SetDisplay(d) ==
    /\ status' = d.status
    /\ timers' = d.timers
    /\ nUpd' = d.nUpd

\* the callback updateStatus passes to setTimeout: the status it leaves
TimerCallback(st, timer) ==
    IF st.text = timer.message THEN ClearedStatus ELSE st

\* the configuration checks without the suffix test
UrlProblemNoSuffixTest(st) ==
    IF Falsy(st, GAS_URL) THEN "Missing Web App URL. Please save a valid URL first."
    ELSE ""

\* the configuration checks of sendLogSimple: "" when the URL passes,
\* otherwise the error message shown
UrlProblem(st) ==
    IF Falsy(st, GAS_URL) THEN "Missing Web App URL. Please save a valid URL first."
    ELSE IF ~EndsWith(st[GAS_URL], "/exec") THEN "URL must end with /exec"
    ELSE ""

\* JSON.stringify of the meta object {page, ua, ...payload.meta}; the
\* buttons pass no meta
MetaJson ==
    "{\"page\":\"" \o Pathname \o "\",\"ua\":\"" \o UserAgent \o "\"}"

\* the URLSearchParams body sendLogSimple builds
BuildParams(payload, userId, t) ==
    <<<<"event", payload.event>>>>
    \o (IF Falsy(payload, "variant") THEN <<>> ELSE <<<<"variant", payload.variant>>>>)
    \o <<<<"userId", userId>>, <<"ts", ToString(t)>>, <<"meta", MetaJson>>>>

\* sendLogSimple without its catch block: the exception leaves the handler
CatchBlockMissing(d, message, t) ==
    [display |-> d, pc |-> "uncaught"]

\* the catch block of sendLogSimple
CatchBlock(d, message, t) ==
    [display |-> UpdateStatus(d, "Failed: " \o message, TRUE, t), pc |-> "done"]

\* response.ok
ResponseOk(code) == 200 <= code /\ code <= 299

\* what gas_url was when a call read it
SeenUrl(st) == [k \in DOMAIN st \cap {GAS_URL} |-> st[k]]

\* localStorage when the page is opened: a fresh profile, or what an earlier
\* visit left (its user id and a saved URL)
PersistedStorage ==
    { EmptyObj,
      Put(GetOrCreateUserId(EmptyObj, 0, "4fzyo82mv").storage, GAS_URL,
          "https://script.google.com/macros/s/X/exec") }

ClientInit ==
    /\ page = "loading"
    /\ now = 0
    /\ storage \in PersistedStorage
    /\ inputValue = ""
    /\ status = ClearedStatus
    /\ timers = {}
    /\ nUpd = 0
    /\ lastClear = [happened |-> FALSE]
    /\ calls = <<>>
    /\ requests = <<>>
    /\ nActs = 0
    /\ uidReturns = <<>>

\* init(): prefill the input, make sure the user id exists, attach listeners
InitPage ==
    /\ page = "loading"
    /\ \E r \in RandomParts :
         LET g == GetOrCreateUserId(storage, now, r)
         IN /\ storage' = g.storage
            /\ uidReturns' = Append(uidReturns, g.userId)
    /\ inputValue' = IF Falsy(storage, GAS_URL) THEN inputValue ELSE storage[GAS_URL]
    /\ page' = "ready"
    /\ UNCHANGED <<now, status, timers, nUpd, lastClear, calls, requests, nActs,
                   serverVars>>

\* the user edits the URL field (or leaves it) and clicks "save URL" (or
\* presses Enter in the field)
SaveUrl ==
    /\ page = "ready"
    /\ nActs < MaxActs
    /\ nActs' = nActs + 1
    /\ \E typed \in UrlInputs \cup {inputValue} :
         LET url == Trim(typed)
             warned == IF ~StartsWith(url, "https://") \/ ~Includes(url, "google.com")
                       THEN UpdateStatus(Display, "Warning: URL may not be valid", TRUE, now)
                       ELSE Display
         IN /\ inputValue' = typed
            /\ IF url = ""
               THEN /\ SetDisplay(UpdateStatus(Display, "Please enter a URL", TRUE, now))
                    /\ storage' = storage
               ELSE /\ storage' = Put(storage, GAS_URL, url)
                    /\ SetDisplay(UpdateStatus(warned, "URL saved", FALSE, now))
    /\ UNCHANGED <<page, now, lastClear, calls, requests, uidReturns, serverVars>>

\* what the status display reports after an updateStatus call
Report(d) == [text |-> d.status.text, isError |-> d.status.cls = "error"]

NoReport == [text |-> "", isError |-> FALSE]
NotSettled == [kind |-> "none"]

\* click on CTA A, CTA B or heartbeat: sendLogSimple(payload) up to its
\* first await
SendLogSimple ==
    /\ page = "ready"
    /\ nActs < MaxActs
    /\ nActs' = nActs + 1
    /\ \E payload \in Payloads, r \in RandomParts :
         LET problem == UrlProblem(storage)
             id == Len(calls) + 1
             g == GetOrCreateUserId(storage, now, r)
             shown == UpdateStatus(Display, problem, TRUE, now)
             call == [seen |-> SeenUrl(storage),
                      fetched |-> NotSettled, parsed |-> NotSettled]
         IN IF problem # ""
            THEN /\ SetDisplay(shown)
                 /\ calls' = Append(calls,
                        call @@ [pc |-> "done", report |-> Report(shown)])
                 /\ UNCHANGED <<storage, requests, uidReturns>>
            ELSE /\ storage' = g.storage
                 /\ uidReturns' = Append(uidReturns, g.userId)
                 /\ requests' = Append(requests,
                        [call |-> id, url |-> storage[GAS_URL], method |-> "POST",
                         body |-> BuildParams(payload, g.userId, now)])
                 /\ calls' = Append(calls,
                        call @@ [pc |-> "fetch", report |-> NoReport])
                 /\ UNCHANGED <<status, timers, nUpd>>
    /\ UNCHANGED <<page, now, inputValue, lastClear, serverVars>>

\* call i ends at pc with the display d
Finish(i, d, pc, fetched, parsed) ==
    /\ SetDisplay(d)
    /\ calls' = [calls EXCEPT ![i].pc = pc,
                              ![i].report = IF d = Display THEN NoReport ELSE Report(d),
                              ![i].fetched = fetched,
                              ![i].parsed = parsed]

\* the fetch of call i settles: sendLogSimple runs on to response.json()
FetchSettles ==
    /\ page = "ready"
    /\ \E i \in DOMAIN calls, o \in FetchOutcomes :
         /\ calls[i].pc = "fetch"
         /\ IF o.kind = "reject"
            THEN LET c == CatchBlock(Display, o.message, now)
                 IN Finish(i, c.display, c.pc, o, NotSettled)
            ELSE IF ~ResponseOk(o.status)
            THEN LET c == CatchBlock(Display, "HTTP " \o ToString(o.status), now)
                 IN Finish(i, c.display, c.pc, o, NotSettled)
            ELSE Finish(i, Display, "json", o, NotSettled)
    /\ UNCHANGED <<page, now, storage, inputValue, lastClear, requests, nActs,
                   uidReturns, serverVars>>

\* response.json() of call i settles: sendLogSimple runs to its end
JsonSettles ==
    /\ page = "ready"
    /\ \E i \in DOMAIN calls, o \in JsonOutcomes :
         /\ calls[i].pc = "json"
         /\ IF o.kind = "reject"
            THEN LET c == CatchBlock(Display, o.message, now)
                 IN Finish(i, c.display, c.pc, calls[i].fetched, o)
            ELSE IF o.kind = "null"
            THEN LET c == CatchBlock(Display,
                              "Cannot read properties of null (reading 'ok')", now)
                 IN Finish(i, c.display, c.pc, calls[i].fetched, o)
            ELSE IF "ok" \in DOMAIN o.fields /\ o.fields.ok
            THEN Finish(i, UpdateStatus(Display, "Logged", FALSE, now), "done",
                        calls[i].fetched, o)
            ELSE Finish(i, UpdateStatus(Display, "Server error", TRUE, now), "done",
                        calls[i].fetched, o)
    /\ UNCHANGED <<page, now, storage, inputValue, lastClear, requests, nActs,
                   uidReturns, serverVars>>

\* a timer of updateStatus fires; timers of equal delay fire in the order
\* they were set
TimerFires ==
    /\ page = "ready"
    /\ \E timer \in timers :
         /\ timer.due <= now
         /\ \A other \in timers : other.by >= timer.by
         /\ timers' = timers \ {timer}
         /\ status' = TimerCallback(status, timer)
         /\ lastClear' = IF status' = status THEN lastClear
                         ELSE [happened |-> TRUE, newer |-> status.by > timer.by,
                               cls |-> status.cls]
    /\ UNCHANGED <<page, now, storage, inputValue, nUpd, calls, requests, nActs,
                   uidReturns, serverVars>>

TickMs == TimerDelay

\* time passes
Tick ==
    /\ now + TickMs <= MaxTicks * TickMs
    /\ now' = now + TickMs
    /\ UNCHANGED <<page, storage, inputValue, status, timers, nUpd, lastClear,
                   calls, requests, nActs, uidReturns, serverVars>>

----------------------------------------------------------------------------
(* src/dopost.js: the ingest endpoint *)

\* a value that was thrown, and a value that was returned
Throw(message) == [threw |-> TRUE, message |-> message]
Return(value) == [threw |-> FALSE, value |-> value]

DigitChars == "0123456789"
IsDigit(c) == \E d \in 0..9 : CharAt(DigitChars, d + 1) = c
DigitValue(c) == CHOOSE d \in 0..9 : CharAt(DigitChars, d + 1) = c

MsPerDay == 24 * 60 * 60 * 1000
\* a Date holds at most 100,000,000 days either side of the epoch
MaxDays == 100 * 1000 * 1000

\* the leading decimal digits of s, as days and milliseconds of the day;
\* big once the value is beyond what a Date can hold
RECURSIVE ReadDigits(_, _)
ReadDigits(s, acc) ==
    IF Len(s) = 0 \/ ~IsDigit(CharAt(s, 1)) THEN acc
    ELSE LET v == acc.ms * 10 + DigitValue(CharAt(s, 1))
             q == acc.days * 10 + (v \div MsPerDay)
         IN IF acc.big \/ q > MaxDays
            THEN ReadDigits(Tail(s), [acc EXCEPT !.big = TRUE, !.days = 0, !.ms = 0])
            ELSE ReadDigits(Tail(s), [acc EXCEPT !.days = q, !.ms = v % MsPerDay])

\* parseInt(s) for a decimal string: leading white space and a sign are
\* skipped, the digits up to the first other character are read, and the
\* result is NaN when there is none
ParseInt(s) ==
    LET t == TrimStart(s)
        signed == Len(t) > 0 /\ CharAt(t, 1) \in {"-", "+"}
        body == IF signed THEN Tail(t) ELSE t
        digits == ReadDigits(body, [days |-> 0, ms |-> 0, big |-> FALSE])
    IN [nan |-> Len(body) = 0 \/ ~IsDigit(CharAt(body, 1)),
        neg |-> signed /\ CharAt(t, 1) = "-",
        days |-> digits.days, ms |-> digits.ms, big |-> digits.big]

\* new Date(n): the day number and the millisecond in that day, or an
\* invalid Date for NaN and for values beyond +-8.64e15
NewDate(n) ==
    IF n.nan \/ n.big \/ (n.days = MaxDays /\ n.ms > 0) THEN [valid |-> FALSE]
    ELSE IF ~n.neg THEN [valid |-> TRUE, day |-> n.days, ms |-> n.ms]
    ELSE IF n.ms = 0 THEN [valid |-> TRUE, day |-> 0 - n.days, ms |-> 0]
    ELSE [valid |-> TRUE, day |-> 0 - n.days - 1, ms |-> MsPerDay - n.ms]

\* n in decimal, padded with zeros to w characters
RECURSIVE Pad(_, _)
Pad(n, w) == IF Len(ToString(n)) >= w THEN ToString(n)
             ELSE "0" \o Pad(n, w - 1)

\* year, month and day of a day number (proleptic Gregorian calendar)
CivilFromDays(day) ==
    LET z == day + 719468
        era == z \div 146097
        doe == z % 146097
        yoe == (doe - (doe \div 1460) + (doe \div 36524) - (doe \div 146096)) \div 365
        doy == doe - (365 * yoe + (yoe \div 4) - (yoe \div 100))
        mp == (5 * doy + 2) \div 153
        d == doy - ((153 * mp + 2) \div 5) + 1
        m == IF mp < 10 THEN mp + 3 ELSE mp - 9
    IN [year |-> yoe + era * 400 + (IF m <= 2 THEN 1 ELSE 0), month |-> m, day |-> d]

\* Date.prototype.toISOString(): throws a RangeError on an invalid Date
ToISOString(date) ==
    IF ~date.valid THEN Throw("Invalid time value")
    ELSE LET c == CivilFromDays(date.day)
             year == IF c.year >= 0 /\ c.year <= 9999 THEN Pad(c.year, 4)
                     ELSE IF c.year < 0 THEN "-" \o Pad(0 - c.year, 6)
                     ELSE "+" \o Pad(c.year, 6)
             secs == date.ms \div 1000
         IN Return(year \o "-" \o Pad(c.month, 2) \o "-" \o Pad(c.day, 2)
                   \o "T" \o Pad(secs \div 3600, 2)
                   \o ":" \o Pad((secs \div 60) % 60, 2)
                   \o ":" \o Pad(secs % 60, 2)
                   \o "." \o Pad(date.ms % 1000, 3) \o "Z")

FormType == "application/x-www-form-urlencoded"
JsonType == "application/json"

\* JSON.parse(contents): the contents either parse to a value or do not
JsonParse(contents) ==
    IF contents.parses THEN Return(contents.value)
    ELSE Throw("Unexpected token in JSON")

ObjectValue(fields) == [kind |-> "object", fields |-> fields]

\* the parameters without the rejection of other types and with a parse
\* failure swallowed: the request's own parameters are used instead
ParseParamsLenient(e) ==
    IF "postData" \notin DOMAIN e
    THEN Throw("Cannot read properties of undefined (reading 'type')")
    ELSE IF e.postData.type = JsonType /\ e.postData.contents.parses
    THEN Return(e.postData.contents.value)
    ELSE Return(ObjectValue(e.parameter))

\* doPost, lines 13-24: the parameters by content type
ParseParams(e) ==
    IF "postData" \notin DOMAIN e
    THEN Throw("Cannot read properties of undefined (reading 'type')")
    ELSE IF e.postData.type = FormType THEN Return(ObjectValue(e.parameter))
    ELSE IF e.postData.type = JsonType THEN JsonParse(e.postData.contents)
    ELSE Throw("Unsupported content type: " \o e.postData.type)

\* a test for undefined only: an empty string passes as a value
FalsyParamAbsentOnly(params, key) ==
    params.kind # "object" \/ key \notin DOMAIN params.fields

\* !params.key, for params as parsed: null has no properties to read, a
\* primitive has none of these
FalsyParam(params, key) ==
    params.kind # "object" \/ Falsy(params.fields, key)

\* doPost, lines 26-29: the required parameters
Validate(params) ==
    IF params.kind = "null"
    THEN Throw("Cannot read properties of null (reading 'event')")
    ELSE IF FalsyParam(params, "event") \/ FalsyParam(params, "userId")
            \/ FalsyParam(params, "ts")
    THEN Throw("Missing required parameters")
    ELSE Return(params.fields)

\* params.key || ''
OrEmpty(fields, key) == IF Falsy(fields, key) THEN "" ELSE fields[key]

\* the row with the variant and userId columns in each other's place
RowDataSwapped(fields) ==
    LET iso == ToISOString(NewDate(ParseInt(fields.ts)))
    IN IF iso.threw THEN iso
       ELSE Return(<<iso.value, fields.event, fields.userId,
                     OrEmpty(fields, "variant"), OrEmpty(fields, "meta")>>)

\* doPost, lines 31-39: the row for validated parameters
RowData(fields) ==
    LET iso == ToISOString(NewDate(ParseInt(fields.ts)))
    IN IF iso.threw THEN iso
       ELSE Return(<<iso.value, fields.event, OrEmpty(fields, "variant"),
                     fields.userId, OrEmpty(fields, "meta")>>)

Headers == <<"ts_iso", "event", "variant", "userId", "meta">>

LOGS == "logs"
SPREADSHEET_ID == "SPREADSHEET_ID"
ActiveBook == "active"
OtherBook == "1AbC"

\* the spreadsheet getOrCreateLogSheet works on
TargetBook(pr) == IF Falsy(pr, SPREADSHEET_ID) THEN ActiveBook ELSE pr[SPREADSHEET_ID]

NewSheet == [rows |-> <<>>, formatted |-> FALSE]

\* spreadsheet.insertSheet('logs'): a second sheet of the same name is refused
InsertSheet(book) ==
    IF LOGS \in DOMAIN book
    THEN Throw("A sheet with the name \"logs\" already exists. Please enter another name.")
    ELSE Return(Put(book, LOGS, NewSheet))

\* sheet.getRange(1, 1, 1, 5).setValues([headers]): row 1 is overwritten
SetHeaderValues(sheet) ==
    [sheet EXCEPT !.rows = IF Len(sheet.rows) = 0 THEN <<Headers>>
                           ELSE [sheet.rows EXCEPT ![1] = Headers]]

\* the rest of initSheetHeaders: frozen row, background, weight, widths
FormatHeader(sheet) == [sheet EXCEPT !.formatted = TRUE]

\* a write at the last row with content instead of after it
AppendRowOverLast(sheet, rowData) ==
    [sheet EXCEPT !.rows = IF Len(sheet.rows) = 0 THEN <<rowData>>
                           ELSE [sheet.rows EXCEPT ![Len(sheet.rows)] = rowData]]

\* sheet.appendRow(rowData): the row goes after the last row with content
AppendRow(sheet, rowData) == [sheet EXCEPT !.rows = Append(sheet.rows, rowData)]

\* the store operations that can fail
FaultPoints == {"open", "insert", "header", "format", "append"}

\* the catch block of doPost
Failure(message) == [ok |-> FALSE, error |-> message]

Fail(inv, message) == [inv EXCEPT !.pc = "done", !.resp = Failure(message)]

\* a doPost invocation that has just been called with e; fault names the
\* store operation that throws during it, if any
NewInvocation(e, fault, bks) ==
    [e |-> e, fault |-> fault, pc |-> "start", row |-> <<>>,
     resp |-> [ok |-> FALSE, error |-> ""], before |-> bks, after |-> bks]

\* one step of a doPost invocation on the spreadsheets bks: the invocation
\* and the spreadsheets afterwards
DoPostStep(inv, pr, bks) ==
    LET b == TargetBook(pr)
        same(i) == [inv |-> i, books |-> bks]
        with(i, sheet) ==
            [inv |-> i, books |-> [bks EXCEPT ![b] = Put(bks[b], LOGS, sheet)]]
    IN CASE inv.pc = "start" ->
              \* lines 13-39: parse, validate, build the row
              LET parsed == ParseParams(inv.e)
                  valid == Validate(parsed.value)
                  row == RowData(valid.value)
              IN IF parsed.threw THEN same(Fail(inv, parsed.message))
                 ELSE IF valid.threw THEN same(Fail(inv, valid.message))
                 ELSE IF row.threw THEN same(Fail(inv, row.message))
                 ELSE same([inv EXCEPT !.pc = "lookup", !.row = row.value])
         [] inv.pc = "lookup" ->
              \* lines 68-75, 81-83: open the spreadsheet, look for the sheet
              IF inv.fault = "open" THEN same(Fail(inv, "Service error: Spreadsheets"))
              ELSE IF LOGS \in DOMAIN bks[b] THEN same([inv EXCEPT !.pc = "append"])
              ELSE same([inv EXCEPT !.pc = "insert"])
         [] inv.pc = "insert" ->
              \* lines 76, 84
              LET made == InsertSheet(bks[b])
              IN IF inv.fault = "insert"
                 THEN same(Fail(inv, "Service error: Spreadsheets"))
                 ELSE IF made.threw THEN same(Fail(inv, made.message))
                 ELSE [inv |-> [inv EXCEPT !.pc = "header"],
                       books |-> [bks EXCEPT ![b] = made.value]]
         [] inv.pc = "header" ->
              \* line 106
              IF inv.fault = "header" THEN same(Fail(inv, "Service error: Spreadsheets"))
              ELSE with([inv EXCEPT !.pc = "format"], SetHeaderValues(bks[b][LOGS]))
         [] inv.pc = "format" ->
              \* lines 109-119
              IF inv.fault = "format" THEN same(Fail(inv, "Service error: Spreadsheets"))
              ELSE with([inv EXCEPT !.pc = "append"], FormatHeader(bks[b][LOGS]))
         [] inv.pc = "append" ->
              \* lines 43-48
              IF inv.fault = "append" THEN same(Fail(inv, "Service error: Spreadsheets"))
              ELSE with([inv EXCEPT !.pc = "done", !.resp = [ok |-> TRUE]],
                        AppendRow(bks[b][LOGS], inv.row))

\* a doPost invocation run to its return, nothing else running
RECURSIVE Run(_, _, _)
Run(inv, pr, bks) ==
    IF inv.pc = "done" THEN [inv |-> [inv EXCEPT !.after = bks], books |-> bks]
    ELSE CHOOSE end \in {Run(next.inv, pr, next.books) : next \in {DoPostStep(inv, pr, bks)}} :
             TRUE

\* the requests the endpoint is sent
FormPost(fields) ==
    [postData |-> [type |-> FormType, contents |-> [parses |-> FALSE]],
     parameter |-> fields]

JsonPost(contents) ==
    [postData |-> [type |-> JsonType, contents |-> contents], parameter |-> EmptyObj]

Heartbeat == [event |-> "heartbeat", userId |-> "u1", ts |-> "1700000000000"]

CtaClick ==
    [event |-> "cta_click", variant |-> "A", userId |-> "usr_0_4fzyo82mv",
     ts |-> "1700000003000", meta |-> MetaJson]

ValidPosts == {FormPost(Heartbeat), FormPost(CtaClick)}

Requests ==
    ValidPosts \cup
    { FormPost([Heartbeat EXCEPT !.ts = "0"]),
      FormPost([userId |-> "u1", ts |-> "1700000000000"]),
      FormPost([Heartbeat EXCEPT !.event = ""]),
      FormPost([event |-> "heartbeat", ts |-> "1700000000000"]),
      FormPost([event |-> "heartbeat", userId |-> "u1", variant |-> "B"]),
      FormPost([Heartbeat EXCEPT !.ts = "soon"]),
      FormPost([Heartbeat EXCEPT !.ts = "8640000000000001"]),
      [postData |-> [type |-> "text/plain",
                     contents |-> [parses |-> TRUE, value |-> ObjectValue(CtaClick)]],
       parameter |-> CtaClick],
      JsonPost([parses |-> TRUE, value |-> ObjectValue(CtaClick)]),
      [postData |-> [type |-> JsonType, contents |-> [parses |-> FALSE]],
       parameter |-> Heartbeat],
      JsonPost([parses |-> TRUE, value |-> [kind |-> "null"]]),
      JsonPost([parses |-> TRUE, value |-> [kind |-> "number"]]),
      JsonPost([parses |-> TRUE,
                value |-> ObjectValue([event |-> "cta_click", userId |-> "u1"])]),
      [parameter |-> Heartbeat] }

\* the requests sent while store operations can fail, or at the same time
FewRequests ==
    ValidPosts \cup {FormPost([event |-> "heartbeat", ts |-> "1700000000000"])}

ServerInit ==
    /\ props \in {EmptyObj, [SPREADSHEET_ID |-> OtherBook]}
    /\ books = [b \in {ActiveBook, OtherBook} |-> EmptyObj]
    /\ invs = <<>>

\* a request arrives and doPost runs to its return
DoPost ==
    /\ Len(invs) < MaxPosts
    /\ \E e \in Requests :
         \E r \in {Run(NewInvocation(e, "none", books), props, books)} :
            /\ invs' = Append(invs, r.inv)
            /\ books' = r.books
    /\ UNCHANGED <<props, clientVars>>

\* a request arrives and doPost runs to its return; one store operation
\* may throw on the way
DoPostFaulty ==
    /\ Len(invs) < MaxPosts
    /\ \E e \in FewRequests, fault \in FaultPoints \cup {"none"} :
         \E r \in {Run(NewInvocation(e, fault, books), props, books)} :
            /\ invs' = Append(invs, r.inv)
            /\ books' = r.books
    /\ UNCHANGED <<props, clientVars>>

\* a request arrives and doPost is called, while earlier calls may still run
Arrive ==
    /\ Len(invs) < MaxPosts
    /\ \E e \in FewRequests : invs' = Append(invs, NewInvocation(e, "none", books))
    /\ UNCHANGED <<props, books, clientVars>>

\* one of the running doPost calls takes its next step
StepOne ==
    /\ \E i \in DOMAIN invs :
         /\ invs[i].pc # "done"
         /\ \E n \in {DoPostStep(invs[i], props, books)} :
               /\ invs' = [invs EXCEPT ![i] = [n.inv EXCEPT !.after = n.books]]
               /\ books' = n.books
    /\ UNCHANGED <<props, clientVars>>

----------------------------------------------------------------------------
(* Specifications *)

ServerIdle ==
    /\ props = EmptyObj
    /\ books = [b \in {ActiveBook, OtherBook} |-> EmptyObj]
    /\ invs = <<>>

Init == ClientInit /\ ServerIdle

ServerStart == ClientInit /\ storage = EmptyObj /\ ServerInit

Next ==
    \/ InitPage
    \/ SaveUrl
    \/ SendLogSimple
    \/ FetchSettles
    \/ JsonSettles
    \/ TimerFires
    \/ Tick

\* the client beacon
Spec == Init /\ [][Next]_vars

\* the endpoint, one request after another
ServerSpec == ServerStart /\ [][DoPost]_vars

\* the endpoint, one request after another, with store operations that can throw
FaultSpec == ServerStart /\ [][DoPostFaulty]_vars

\* the endpoint, with requests served at the same time
ConcurrentNext == Arrive \/ StepOne
ConcurrentSpec == ServerStart /\ [][ConcurrentNext]_vars

----------------------------------------------------------------------------
(* Claims about the client beacon, checked under Spec *)

RequestsOf(i) == {k \in DOMAIN requests : requests[k].call = i}

BadUrl(seen) == Falsy(seen, GAS_URL) \/ ~EndsWith(seen[GAS_URL], "/exec")

\* C1: a sendLogSimple call that finds gas_url absent, empty or not ending
\* in "/exec" shows an error status and sends no request; every request
\* ever sent went to the URL stored at the time of its call, and that URL
\* was non-empty and ended in "/exec".
C1_NoRequestWithoutExecUrl ==
    /\ \A i \in DOMAIN calls :
         BadUrl(calls[i].seen)
            => /\ calls[i].pc = "done"
               /\ calls[i].report.isError
               /\ RequestsOf(i) = {}
    /\ \A k \in DOMAIN requests :
         /\ requests[k].call \in DOMAIN calls
         /\ ~BadUrl(calls[requests[k].call].seen)
         /\ requests[k].url = calls[requests[k].call].seen[GAS_URL]
         /\ requests[k].url # ""
         /\ EndsWith(requests[k].url, "/exec")

\* a call made with a stored URL that does not end in "/exec" has been
\* answered
C1_Witness ==
    \E i \in DOMAIN calls :
        /\ ~Falsy(calls[i].seen, GAS_URL)
        /\ ~EndsWith(calls[i].seen[GAS_URL], "/exec")
        /\ calls[i].report.text = "URL must end with /exec"

\* C2: once an identifier is stored under uid, no client step changes or
\* removes it, and every value getOrCreateUserId has returned is the
\* stored one.
C2_UserIdStable ==
    [][ /\ ~Falsy(storage, USER_ID)
            => /\ USER_ID \in DOMAIN storage'
               /\ storage'[USER_ID] = storage[USER_ID]
        /\ \A i \in DOMAIN uidReturns' :
            /\ USER_ID \in DOMAIN storage'
            /\ uidReturns'[i] = storage'[USER_ID] ]_vars

\* getOrCreateUserId has been called by init and, at a later time, by a
\* submission that went out
C2_Witness ==
    /\ Len(uidReturns) >= 2
    /\ now > 0
    /\ \E k \in DOMAIN requests : requests[k].body[Len(requests[k].body) - 1][2] # "0"

\* the one outcome sendLogSimple reports as a success
Succeeded(call) ==
    /\ call.fetched.kind = "response"
    /\ ResponseOk(call.fetched.status)
    /\ call.parsed.kind = "object"
    /\ "ok" \in DOMAIN call.parsed.fields
    /\ call.parsed.fields.ok

\* C7: a click sends at most one request; whatever way the request
\* settles, the call ends, never with an uncaught exception and never
\* sending again, and every outcome but a 2xx response carrying ok:true is
\* reported as an error status.
C7_OneAttemptNoCrash ==
    \A i \in DOMAIN calls :
        /\ Cardinality(RequestsOf(i)) <= 1
        /\ calls[i].pc \in {"fetch", "json", "done"}
        /\ (calls[i].fetched.kind = "reject"
              \/ (calls[i].fetched.kind = "response"
                    /\ ~ResponseOk(calls[i].fetched.status)))
              => /\ calls[i].pc = "done"
                 /\ calls[i].report.isError
        /\ calls[i].parsed.kind # "none"
              => /\ calls[i].pc = "done"
                 /\ calls[i].report # NoReport
                 /\ calls[i].report.isError = ~Succeeded(calls[i])

\* one click's request failed on the network and was reported, another's
\* was answered ok:true
C7_Witness ==
    /\ \E i \in DOMAIN calls :
         /\ calls[i].fetched.kind = "reject"
         /\ calls[i].pc = "done"
         /\ calls[i].report = [text |-> "Failed: Failed to fetch", isError |-> TRUE]
         /\ Cardinality(RequestsOf(i)) = 1
    /\ \E i \in DOMAIN calls :
         /\ Succeeded(calls[i])
         /\ calls[i].report = [text |-> "Logged", isError |-> FALSE]

\* C8: a timer never clears an error message, and never clears a message
\* that a later updateStatus call than the one that set the timer displayed.
C8_TimerNeverClearsNewerOrError ==
    lastClear.happened => (~lastClear.newer /\ lastClear.cls # "error")

----------------------------------------------------------------------------
(* Claims about the ingest endpoint *)

SheetExists(bks) == LOGS \in DOMAIN bks[TargetBook(props)]

\* the rows of the logs sheet, none when there is no sheet
Rows(bks) == IF SheetExists(bks) THEN bks[TargetBook(props)][LOGS].rows ELSE <<>>

\* the rows below the header row
DataRows(rows) == IF Len(rows) > 0 /\ rows[1] = Headers THEN Tail(rows) ELSE rows

HasType(e, type) == "postData" \in DOMAIN e /\ e.postData.type = type

AllDigits(str) == Len(str) > 0 /\ \A k \in 1..Len(str) : IsDigit(CharAt(str, k))

\* a string of digits that is a time a Date can hold
EpochMillis(str) == AllDigits(str) /\ NewDate(ParseInt(str)).valid

\* the row the claim describes for the form fields f
ExpectedRow(f) ==
    << ToISOString(NewDate(ParseInt(f.ts))).value,
       f.event,
       IF "variant" \in DOMAIN f THEN f.variant ELSE "",
       f.userId,
       IF "meta" \in DOMAIN f THEN f.meta ELSE "" >>

\* ISO-8601 strings of some epoch times
KnownIso ==
    [ts \in {"0", "1700000000000", "1700000003000"} |->
        IF ts = "0" THEN "1970-01-01T00:00:00.000Z"
        ELSE IF ts = "1700000000000" THEN "2023-11-14T22:13:20.000Z"
        ELSE "2023-11-14T22:13:23.000Z"]

\* C3 (under ServerSpec): a form-urlencoded POST whose event, userId and
\* ts carry a value, ts a string of digits for a time a Date can hold, is
\* answered {ok:true} and adds exactly one row, after the rows there were
\* (and after the header, if the sheet was made for it): [ISO-8601 of ts,
\* event, variant or "", userId, meta as received or ""].  The spec's
\* example gives ["2023-11-14T22:13:20.000Z", "heartbeat", "", "u1", ""].
C3_FormPostAppendsRow ==
    \A i \in DOMAIN invs :
        LET inv == invs[i]
            f == inv.e.parameter
        IN (/\ HasType(inv.e, FormType)
            /\ ~Falsy(f, "event") /\ ~Falsy(f, "userId") /\ ~Falsy(f, "ts")
            /\ EpochMillis(f.ts))
           => /\ inv.resp = [ok |-> TRUE]
              /\ Rows(inv.after)
                   = Append(IF SheetExists(inv.before) THEN Rows(inv.before)
                            ELSE <<Headers>>,
                            ExpectedRow(f))
              /\ f = Heartbeat
                   => Rows(inv.after)[Len(Rows(inv.after))]
                        = <<"2023-11-14T22:13:20.000Z", "heartbeat", "", "u1", "">>
              /\ f.ts \in DOMAIN KnownIso
                   => Rows(inv.after)[Len(Rows(inv.after))][1] = KnownIso[f.ts]

\* the spec's heartbeat example made the sheet, and a click with variant
\* and meta was stored after it
C3_Witness ==
    /\ Len(invs) >= 2
    /\ invs[1].e = FormPost(Heartbeat)
    /\ invs[2].e = FormPost(CtaClick)
    /\ invs[2].resp = [ok |-> TRUE]
    /\ Len(Rows(books)) = 3
    /\ Rows(books)[3][3] = "A"
    /\ Rows(books)[3][5] = MetaJson

\* what a request in a supported encoding carries, as doPost reads it
Carried(e) ==
    IF e.postData.type = FormType THEN ObjectValue(e.parameter)
    ELSE e.postData.contents.value

Supported(e) ==
    \/ HasType(e, FormType)
    \/ HasType(e, JsonType) /\ e.postData.contents.parses

LacksRequired(e) ==
    \E key \in {"event", "userId", "ts"} :
        Carried(e).kind # "object" \/ Falsy(Carried(e).fields, key)

\* C4 (under ServerSpec): a POST in a supported encoding that lacks event,
\* userId or ts (absent, or empty) is answered {ok:false, error: message}
\* and leaves every spreadsheet as it was: no row, no sheet made.
C4_MissingFieldRejected ==
    \A i \in DOMAIN invs :
        (Supported(invs[i].e) /\ LacksRequired(invs[i].e))
           => /\ ~invs[i].resp.ok
              /\ invs[i].resp.error # ""
              /\ invs[i].after = invs[i].before

\* a form post without event was rejected while there was no sheet yet, and
\* a JSON post without ts was rejected after a sheet had rows
C4_Witness ==
    /\ \E i \in DOMAIN invs :
         /\ HasType(invs[i].e, FormType)
         /\ "event" \notin DOMAIN invs[i].e.parameter
         /\ invs[i].resp = Failure("Missing required parameters")
         /\ ~SheetExists(invs[i].after)
    /\ \E i \in DOMAIN invs :
         /\ HasType(invs[i].e, JsonType)
         /\ Supported(invs[i].e)
         /\ Carried(invs[i].e).kind = "object"
         /\ Len(Rows(invs[i].before)) = 2

\* C5 (under ServerSpec): a POST whose declared type is neither form nor
\* JSON, and a JSON POST whose body does not parse, is answered {ok:false,
\* error: message} and adds no row, whatever fields the request carries.
C5_UnsupportedOrMalformedRejected ==
    \A i \in DOMAIN invs :
        LET e == invs[i].e
        IN ("postData" \in DOMAIN e
              /\ (e.postData.type \notin {FormType, JsonType}
                    \/ (e.postData.type = JsonType /\ ~e.postData.contents.parses)))
           => /\ ~invs[i].resp.ok
              /\ invs[i].resp.error # ""
              /\ invs[i].after = invs[i].before

\* a text/plain post and a malformed JSON post, both carrying all the
\* fields, were rejected
C5_Witness ==
    /\ \E i \in DOMAIN invs :
         /\ invs[i].e.parameter = CtaClick
         /\ invs[i].resp = Failure("Unsupported content type: text/plain")
    /\ \E i \in DOMAIN invs :
         /\ HasType(invs[i].e, JsonType)
         /\ ~invs[i].e.postData.contents.parses
         /\ invs[i].e.parameter = Heartbeat
         /\ ~invs[i].resp.ok

\* the rows of the requests answered {ok:true}, in order
RECURSIVE OkRows(_)
OkRows(k) ==
    IF k = 0 THEN <<>>
    ELSE IF invs[k].resp.ok THEN Append(OkRows(k - 1), invs[k].row)
    ELSE OkRows(k - 1)

IsPrefix(a, b) == Len(a) <= Len(b) /\ SubSeq(b, 1, Len(a)) = a

\* C6 (under ServerSpec): after any sequence of requests, the logs sheet,
\* once it exists, holds the header row, once and first, and then one row
\* for each request answered {ok:true}, in order; no request changes or
\* removes a row that was there before it; there is no sheet before the
\* first {ok:true}.
C6_HeaderOnceRowsAppendOnly ==
    /\ SheetExists(books)
          => /\ Rows(books) = <<Headers>> \o OkRows(Len(invs))
             /\ Cardinality({k \in DOMAIN Rows(books) : Rows(books)[k] = Headers}) = 1
    /\ ~SheetExists(books) => OkRows(Len(invs)) = <<>>
    /\ \A i \in DOMAIN invs :
          /\ IsPrefix(Rows(invs[i].before), Rows(invs[i].after))
          /\ Len(DataRows(Rows(invs[i].after)))
               = Len(DataRows(Rows(invs[i].before))) + (IF invs[i].resp.ok THEN 1 ELSE 0)

\* two requests were stored with a rejected one between them
C6_Witness ==
    /\ Len(invs) = 3
    /\ invs[1].resp.ok /\ ~invs[2].resp.ok /\ invs[3].resp.ok
    /\ Len(Rows(books)) = 3

\* C9 (under FaultSpec): every doPost call answers, {ok:true} exactly when
\* it added one row; a call that fails answers {ok:false, error: message},
\* adds no data row, and does not leave a sheet it made without its header.
C9_AllOrNothing ==
    \A i \in DOMAIN invs :
        LET inv == invs[i]
        IN /\ inv.pc = "done"
           /\ inv.resp.ok
                <=> Len(DataRows(Rows(inv.after))) = Len(DataRows(Rows(inv.before))) + 1
           /\ ~inv.resp.ok
                => /\ inv.resp.error # ""
                   /\ DataRows(Rows(inv.after)) = DataRows(Rows(inv.before))
                   /\ SheetExists(inv.after)
                        => /\ Len(Rows(inv.after)) > 0
                           /\ Rows(inv.after)[1] = Headers

ValidRequest(e) == e \in ValidPosts

\* C10 (under ConcurrentSpec): doPost calls with valid requests that run
\* at the same time, starting without a sheet, all answer {ok:true}; when
\* all have returned the sheet holds the header row, once and first, and
\* one row for each of them.
C10_ConcurrentPostsAllSucceed ==
    /\ \A i \in DOMAIN invs :
          (invs[i].pc = "done" /\ ValidRequest(invs[i].e)) => invs[i].resp.ok
    /\ (invs # <<>> /\ \A i \in DOMAIN invs : invs[i].pc = "done" /\ ValidRequest(invs[i].e))
          => /\ Len(Rows(books)) = Len(invs) + 1
             /\ Cardinality({k \in DOMAIN Rows(books) : Rows(books)[k] = Headers}) = 1
             /\ Rows(books)[1] = Headers
             /\ \A i \in DOMAIN invs :
                   \E k \in DOMAIN Rows(books) : Rows(books)[k] = invs[i].row

====
